---- MODULE Spec2Model ----
(***************************************************************************)
(* XmlBeautify (assets/js/domutils.js): beautify and _parseInternally as a *)
(* state machine over a DOM tree.  JavaScript strings are sequences of     *)
(* one-character strings; the host DOM (DOMParser, textContent, children,  *)
(* childNodes, innerHTML) is modelled after the DOM standard.              *)
(***************************************************************************)
EXTENDS Integers, Sequences, FiniteSets, TLC

\* ------------------------------------------------------------------ bounds
MaxNodes == 4
MaxDepth == 2
MaxIndentLen == 2
MaxRuns == 2

\* ------------------------------------------------------- JavaScript strings
RECURSIVE Flatten(_)
Flatten(ss) == IF ss = <<>> THEN <<>> ELSE Head(ss) \o Flatten(Tail(ss))

RECURSIVE Repeat(_, _)
Repeat(s, n) == IF n <= 0 THEN <<>> ELSE s \o Repeat(s, n - 1)

StartsAt(s, pat, i) ==
    /\ i + Len(pat) - 1 <= Len(s)
    /\ \A k \in 1..Len(pat) : s[i + k - 1] = pat[k]

\* String.prototype.indexOf: 0-based position of the first occurrence, or -1.
indexOf(s, pat) ==
    LET hits == {i \in 1..(Len(s) + 1) : StartsAt(s, pat, i)}
    IN  IF hits = {} THEN -1
        ELSE (CHOOSE i \in hits : \A j \in hits : i <= j) - 1

\* String.prototype.substr(start, length) for start >= 0.
substr(s, start, length) ==
    LET n == IF start + length > Len(s) THEN Len(s) - start ELSE length
    IN  IF start >= Len(s) \/ n <= 0 THEN <<>>
        ELSE [k \in 1..n |-> s[start + k]]

\* The upper-case letters that occur in the texts of this model.
LowerOf(c) ==
    CASE c = "A" -> "a" [] c = "C" -> "c" [] c = "D" -> "d"
      [] c = "F" -> "f" [] c = "T" -> "t" [] c = "U" -> "u"
      [] OTHER -> c

toLowerCase(s) == [k \in 1..Len(s) |-> LowerOf(s[k])]

\* ------------------------------------------------------------- DOM nodes
ELEMENT_NODE == "ELEMENT_NODE"
TEXT_NODE == "TEXT_NODE"
CDATA_SECTION_NODE == "CDATA_SECTION_NODE"

Element(tag, attrs, kids) ==
    [nodeType |-> ELEMENT_NODE, tagName |-> tag, attributes |-> attrs, childNodes |-> kids]
TextNode(data) == [nodeType |-> TEXT_NODE, data |-> data]
CDataNode(data) == [nodeType |-> CDATA_SECTION_NODE, data |-> data]

IsElement(n) == n.nodeType = ELEMENT_NODE

RECURSIVE textContent(_)
textContent(n) ==
    IF IsElement(n)
    THEN Flatten([i \in 1..Len(n.childNodes) |-> textContent(n.childNodes[i])])
    ELSE n.data

\* ParentNode.children: the child nodes that are elements.
children(n) == IF IsElement(n) THEN SelectSeq(n.childNodes, IsElement) ELSE <<>>
childNodes(n) == IF IsElement(n) THEN n.childNodes ELSE <<>>

\* ---------------------------------------------------------- bounded inputs
TagNames == <<"a", "b", "c", "d", "e">>
TagAt(depth) == <<TagNames[depth + 1]>>

Attr(n, v) == [name |-> n, value |-> v]
AttrLists == {<<>>, <<Attr(<<"q">>, <<"2">>), Attr(<<"p">>, <<"1">>)>>}

TextData == {<<"x">>, <<" ">>, <<" ", "x">>, <<"<">>}
CData == {<<"x">>}
CharNodes == {TextNode(t) : t \in TextData} \cup {CDataNode(t) : t \in CData}

\* Nodes at a given depth made of exactly n nodes, and the sequences of
\* sibling nodes made of exactly n nodes; a parser never yields two adjacent
\* text nodes.
RECURSIVE NodesOfSize(_, _), ForestsOfSize(_, _)
NodesOfSize(n, depth) ==
    (IF n = 1 /\ depth > 0 THEN CharNodes ELSE {})
    \cup (IF depth <= MaxDepth
          THEN {Element(TagAt(depth), al, f) :
                    al \in AttrLists, f \in ForestsOfSize(n - 1, depth + 1)}
          ELSE {})
ForestsOfSize(n, depth) ==
    IF n = 0 THEN {<<>>}
    ELSE UNION {
           UNION {
               {<<first>> \o rest :
                   rest \in {r \in ForestsOfSize(n - m, depth) :
                               r = <<>> \/ ~(first.nodeType = TEXT_NODE
                                             /\ r[1].nodeType = TEXT_NODE)}}
               : first \in NodesOfSize(m, depth)}
           : m \in 1..n}

Documents == UNION {NodesOfSize(n, 0) : n \in 1..MaxNodes}


\* ------------------------------------------------- markup written by the host
Q == "\""
WhiteSpace == {" ", "\t", "\n"}

EscapeText(c) ==
    CASE c = "&" -> <<"&", "a", "m", "p", ";">>
      [] c = "<" -> <<"&", "l", "t", ";">>
      [] c = ">" -> <<"&", "g", "t", ";">>
      [] OTHER -> <<c>>
EscapeAttr(c) ==
    IF c = Q THEN <<"&", "q", "u", "o", "t", ";">> ELSE EscapeText(c)

CDataOpen == <<"<", "!", "[", "C", "D", "A", "T", "A", "[">>
CDataClose == <<"]", "]", ">">>

\* XML serialization of a node, as Element.innerHTML and outerHTML give it
\* for a node of an XML document.
RECURSIVE outerXML(_)
outerXML(n) ==
    IF n.nodeType = TEXT_NODE
    THEN Flatten([k \in 1..Len(n.data) |-> EscapeText(n.data[k])])
    ELSE IF n.nodeType = CDATA_SECTION_NODE
    THEN CDataOpen \o n.data \o CDataClose
    ELSE LET open == <<"<">> \o n.tagName \o
                     Flatten([k \in 1..Len(n.attributes) |->
                        <<" ">> \o n.attributes[k].name \o <<"=", Q>> \o
                        Flatten([j \in 1..Len(n.attributes[k].value) |->
                                   EscapeAttr(n.attributes[k].value[j])]) \o <<Q>>])
         IN  IF n.childNodes = <<>>
             THEN open \o <<"/", ">">>
             ELSE open \o <<">">> \o
                  Flatten([k \in 1..Len(n.childNodes) |-> outerXML(n.childNodes[k])]) \o
                  <<"<", "/">> \o n.tagName \o <<">">>

innerHTML(n) == Flatten([k \in 1..Len(n.childNodes) |-> outerXML(n.childNodes[k])])


\* ----------------------------------------------- DOMParser.parseFromString
IsNameChar(c) ==
    c \notin (WhiteSpace \cup {"<", ">", "/", "=", Q, "'", "&", "?", "!", "[", "]"})

RECURSIVE NameEnd(_, _)
NameEnd(s, i) == IF i <= Len(s) /\ IsNameChar(s[i]) THEN NameEnd(s, i + 1) ELSE i

RECURSIVE SkipSpace(_, _)
SkipSpace(s, i) == IF i <= Len(s) /\ s[i] \in WhiteSpace THEN SkipSpace(s, i + 1) ELSE i

Fail == [ok |-> FALSE]

\* Character data from position i up to a character of stops, with the
\* predefined entities decoded; a raw "<" or an unknown "&" is not well-formed.
RECURSIVE ParseChars(_, _, _, _)
ParseChars(s, i, stops, acc) ==
    IF i > Len(s) \/ s[i] \in stops THEN [ok |-> TRUE, pos |-> i, data |-> acc]
    ELSE IF s[i] = "<" THEN Fail
    ELSE IF s[i] = "&"
    THEN IF StartsAt(s, EscapeText("<"), i) THEN ParseChars(s, i + 4, stops, Append(acc, "<"))
         ELSE IF StartsAt(s, EscapeText(">"), i) THEN ParseChars(s, i + 4, stops, Append(acc, ">"))
         ELSE IF StartsAt(s, EscapeText("&"), i) THEN ParseChars(s, i + 5, stops, Append(acc, "&"))
         ELSE IF StartsAt(s, EscapeAttr(Q), i) THEN ParseChars(s, i + 6, stops, Append(acc, Q))
         ELSE Fail
    ELSE ParseChars(s, i + 1, stops, Append(acc, s[i]))

\* name="value" pairs, each after white space; a repeated name is not well-formed.
RECURSIVE ParseAttrs(_, _, _)
ParseAttrs(s, i, acc) ==
    LET j == SkipSpace(s, i)
    IN  IF j > i /\ j <= Len(s) /\ IsNameChar(s[j])
        THEN LET e == NameEnd(s, j)
                 name == SubSeq(s, j, e - 1)
             IN  IF e + 1 <= Len(s) /\ s[e] = "=" /\ s[e + 1] \in {Q, "'"}
                 THEN LET v == ParseChars(s, e + 2, {s[e + 1]}, <<>>)
                      IN  IF v.ok /\ v.pos <= Len(s)
                             /\ \A k \in 1..Len(acc) : acc[k].name # name
                          THEN ParseAttrs(s, v.pos + 1, Append(acc, Attr(name, v.data)))
                          ELSE Fail
                 ELSE Fail
        ELSE [ok |-> TRUE, pos |-> j, attrs |-> acc]

RECURSIVE ParseElement(_, _), ParseContent(_, _, _)
ParseElement(s, i) ==
    LET e == NameEnd(s, i + 1)
        tag == SubSeq(s, i + 1, e - 1)
        a == ParseAttrs(s, e, <<>>)
    IN  IF ~a.ok THEN Fail
        ELSE IF StartsAt(s, <<"/", ">">>, a.pos)
        THEN [ok |-> TRUE, pos |-> a.pos + 2, node |-> Element(tag, a.attrs, <<>>)]
        ELSE IF StartsAt(s, <<">">>, a.pos)
        THEN LET c == ParseContent(s, a.pos + 1, <<>>)
                 close == <<"<", "/">> \o tag
             IN  IF c.ok /\ StartsAt(s, close, c.pos)
                 THEN LET k == SkipSpace(s, c.pos + Len(close))
                      IN  IF k <= Len(s) /\ s[k] = ">"
                          THEN [ok |-> TRUE, pos |-> k + 1,
                                node |-> Element(tag, a.attrs, c.nodes)]
                          ELSE Fail
                 ELSE Fail
        ELSE Fail
ParseContent(s, i, acc) ==
    IF i > Len(s) \/ StartsAt(s, <<"<", "/">>, i)
    THEN [ok |-> TRUE, pos |-> i, nodes |-> acc]
    ELSE IF StartsAt(s, CDataOpen, i)
    THEN LET rest == SubSeq(s, i + Len(CDataOpen), Len(s))
             e == indexOf(rest, CDataClose)
         IN  IF e < 0 THEN Fail
             ELSE ParseContent(s, i + Len(CDataOpen) + e + Len(CDataClose),
                               Append(acc, CDataNode(SubSeq(rest, 1, e))))
    ELSE IF s[i] = "<"
    THEN IF i + 1 <= Len(s) /\ IsNameChar(s[i + 1])
         THEN LET el == ParseElement(s, i)
              IN  IF el.ok THEN ParseContent(s, el.pos, Append(acc, el.node)) ELSE Fail
         ELSE Fail
    ELSE LET t == ParseChars(s, i, {"<"}, <<>>)
         IN  IF t.ok THEN ParseContent(s, t.pos, Append(acc, TextNode(t.data))) ELSE Fail

XmlDeclOpen == <<"<", "?", "x", "m", "l">>
XmlDeclClose == <<"?", ">">>
VersionName == <<"v", "e", "r", "s", "i", "o", "n">>
EncodingName == <<"e", "n", "c", "o", "d", "i", "n", "g">>
StandaloneName == <<"s", "t", "a", "n", "d", "a", "l", "o", "n", "e">>

\* The pseudo-attributes of an XML declaration: version, then optionally
\* encoding (a non-empty name), then optionally standalone.
XmlDeclOk(d) ==
    LET a == ParseAttrs(d, 1, <<>>)
        names == [k \in 1..Len(a.attrs) |-> a.attrs[k].name]
    IN  /\ a.ok
        /\ a.pos > Len(d)
        /\ names \in {<<VersionName>>, <<VersionName, EncodingName>>,
                      <<VersionName, StandaloneName>>,
                      <<VersionName, EncodingName, StandaloneName>>}
        /\ \A k \in 1..Len(a.attrs) :
              /\ a.attrs[k].value # <<>>
              /\ \A j \in 1..Len(a.attrs[k].value) : IsNameChar(a.attrs[k].value[j])

Document(root) == [childNodes |-> <<root>>]

\* What a browser's DOMParser returns for text that is not well-formed: a
\* document holding a parsererror element.  (A host whose parser throws
\* instead makes beautify return nothing; either way not the text of a
\* well-formed document.)
ParserErrorDocument ==
    Document(Element(<<"p", "a", "r", "s", "e", "r", "e", "r", "r", "o", "r">>, <<>>, <<TextNode(<<"e", "r", "r", "o", "r">>)>>))

parseFromString(s) ==
    LET e == indexOf(s, XmlDeclClose)
        hasDecl == StartsAt(s, XmlDeclOpen, 1)
        declEnd == IF hasDecl /\ e >= 0 THEN e + Len(XmlDeclClose) ELSE 0
        declOk == ~hasDecl \/ (e >= 0 /\ XmlDeclOk(SubSeq(s, Len(XmlDeclOpen) + 1, e)))
        i == SkipSpace(s, declEnd + 1)
    IN  IF declOk /\ i + 1 <= Len(s) /\ s[i] = "<" /\ IsNameChar(s[i + 1])
        THEN LET el == ParseElement(s, i)
             IN  IF el.ok /\ SkipSpace(s, el.pos) > Len(s)
                 THEN Document(el.node)
                 ELSE ParserErrorDocument
        ELSE ParserErrorDocument


\* ------------------------------------------------------------ input texts
NoDecl == [present |-> FALSE]
Declarations ==
    {NoDecl} \cup
    [present : {TRUE},
     version : {<<"1", ".", "0">>, <<"1", ".", "1">>},
     encoding : {<<>>, <<"U", "T", "F", "-", "8">>},
     quote : {Q, "'"},
     tail : {<<>>, <<" ">>, <<" ", "s", "t", "a", "n", "d", "a", "l", "o", "n", "e", "=", Q, "y", "e", "s", Q>>}]

\* The text of an XML declaration; an empty encoding stands for a declaration
\* that states none.
XmlDeclText(d) ==
    IF ~d.present THEN <<>>
    ELSE XmlDeclOpen \o <<" ">> \o VersionName \o <<"=", d.quote>> \o d.version \o <<d.quote>>
         \o (IF d.encoding = <<>> THEN <<>>
             ELSE <<" ">> \o EncodingName \o <<"=", d.quote>> \o d.encoding \o <<d.quote>>)
         \o d.tail \o XmlDeclClose

\* ------------------------------------------------------------ configuration
NoData == [given |-> FALSE]
IndentChar == "\t"
IndentOptions ==
    {[set |-> FALSE]} \cup
    {[set |-> TRUE, v |-> Repeat(<<IndentChar>>, n)] : n \in 0..MaxIndentLen}
Configurations ==
    {NoData} \cup
    [given : {TRUE}, indent : IndentOptions,
     useSelfClosingElement : {"undefined", "true", "false"}]
RenderConfigurations ==
    {NoData} \cup
    {c \in Configurations :
        /\ c.given
        /\ c.useSelfClosingElement # "undefined"
        /\ c.indent.set /\ Len(c.indent.v) = 1}

\* Hosts: whether elements of an XML document have .children, and .innerHTML.
Hosts ==
    {[children |-> TRUE, innerHTML |-> TRUE],
     [children |-> TRUE, innerHTML |-> FALSE],
     [children |-> FALSE, innerHTML |-> FALSE]}

SmallDocuments == UNION {NodesOfSize(n, 0) : n \in 1..(MaxNodes - 2)}

\* The declaration and the configuration are resolved before the tree walk and
\* independently of it, so they vary in full over the small documents only.
Inputs ==
    [root : Documents, decl : {NoDecl}, data : RenderConfigurations]
    \cup [root : SmallDocuments, decl : Declarations, data : {NoData}]
    \cup [root : SmallDocuments, decl : {NoDecl}, data : Configurations]

VARIABLES
    xmlText,      \* beautify's argument xmlText
    data,         \* beautify's argument data
    dom,          \* the host's DOM flavour
    srcDecl,      \* the declaration the input text was written with
    doc,          \* var doc
    xmlHeader,    \* var xmlHeader; <<>> is null
    buildInfo,    \* var buildInfo
    stack,        \* the active calls of _parseInternally, innermost last
    returned,     \* history: the call of _parseInternally that returned last
    resultXml,    \* the value beautify returned
    history,      \* history: the values earlier beautify calls returned
    pc

vars == <<xmlText, data, dom, srcDecl, doc, xmlHeader, buildInfo, stack,
          returned, resultXml, history, pc>>

\* ------------------------------------------------------------------ beautify
hasXmlDef(text) == indexOf(text, XmlDeclOpen) >= 0

EncodingMarker == <<"e", "n", "c", "o", "d", "i", "n", "g", "=", Q>>
DeclEndMarker == <<Q, "?", ">">>

getEncoding(text) ==
    IF ~hasXmlDef(text) THEN <<>>
    ELSE LET encodingStartPos == indexOf(toLowerCase(text), EncodingMarker) + Len(EncodingMarker)
             encodingEndPos == indexOf(text, DeclEndMarker)
         IN  substr(text, encodingStartPos, encodingEndPos - encodingStartPos)

DefaultIndent == <<" ", " ">>

\* if (data) { if (data.indent) indent = data.indent; ... }: "" is falsy.
ResolveIndent(d) ==
    IF d.given /\ d.indent.set /\ Len(d.indent.v) > 0 THEN d.indent.v ELSE DefaultIndent

ResolveSelfClosing(d) == d.given /\ d.useSelfClosingElement = "true"

XmlHeaderOf(text) ==
    IF hasXmlDef(text)
    THEN <<"<", "?", "x", "m", "l", " ", "v", "e", "r", "s", "i", "o", "n", "=", Q, "1", ".", "0", Q, " ", "e", "n", "c", "o", "d", "i", "n", "g", "=", Q>> \o getEncoding(text) \o <<Q, "?", ">">>
    ELSE <<>>

NoBuildInfo ==
    [indentText |-> <<>>, xmlText |-> <<>>, useSelfClosingElement |-> FALSE, indentLevel |-> 0]

\* A call of _parseInternally.  start, level, depth and calls are history: the
\* length of the output and the indent level when the call was made, the depth
\* of the node in the tree, and the calls made from this one with their output.
Call(element, info, depth) ==
    [element |-> element, pc |-> "entry", i |-> 0, indentText |-> <<>>,
     start |-> Len(info.xmlText), level |-> info.indentLevel, depth |-> depth,
     calls |-> <<>>]

\* ------------------------------------------------------------ _parseInternally
HasChildrenProperty(n) == dom.children /\ IsElement(n)

RemoveChar(s, c) == SelectSeq(s, LAMBDA x : x # c)
\* .replace(/\r?\n/g, ''): every "\n", with the "\r" before it if there is one.
RemoveNewlines(s) ==
    LET keep == {k \in 1..Len(s) :
                    /\ s[k] # "\n"
                    /\ ~(s[k] = "\r" /\ k < Len(s) /\ s[k + 1] = "\n")}
        RECURSIVE Pick(_)
        Pick(k) == IF k > Len(s) THEN <<>>
                   ELSE (IF k \in keep THEN <<s[k]>> ELSE <<>>) \o Pick(k + 1)
    IN  Pick(1)

blankReplaced(tc) ==
    RemoveChar(RemoveChar(RemoveNewlines(RemoveChar(tc, " ")), "\n"), "\t")

elementTextContentOf(element) ==
    IF Len(blankReplaced(textContent(element))) = 0 THEN <<>> ELSE textContent(element)

elementHasNoChildren(element) ==
    \/ ~(HasChildrenProperty(element) /\ Len(children(element)) > 0)
    \/ ~(Len(childNodes(element)) > 0)

elementHasValueOrChildren(element) == Len(elementTextContentOf(element)) > 0

elementHasItsValue(element) ==
    elementHasNoChildren(element) /\ elementHasValueOrChildren(element)

isEmptyElement(element) ==
    elementHasNoChildren(element) /\ ~elementHasValueOrChildren(element)

valueOfElement(element) ==
    IF elementHasItsValue(element)
    THEN LET val == IF dom.innerHTML /\ IsElement(element)
                    THEN innerHTML(element)
                    ELSE textContent(element)
         IN  IF indexOf(val, CDataOpen) # -1 /\ indexOf(val, CDataClose) # -1
             THEN CDataOpen \o elementTextContentOf(element) \o CDataClose
             ELSE elementTextContentOf(element)
    ELSE <<>>

indentTextOf(info) == Repeat(info.indentText, info.indentLevel)

\* The attribute loop run from the last attribute to the first.
attributesTextBackwards(element) ==
    Flatten([i \in 1..Len(element.attributes) |->
               <<" ">> \o element.attributes[Len(element.attributes) + 1 - i].name
               \o <<"=">> \o <<Q>>
               \o element.attributes[Len(element.attributes) + 1 - i].value \o <<Q>>])

attributesText(element) ==
    Flatten([i \in 1..Len(element.attributes) |->
               <<" ">> \o element.attributes[i].name \o <<"=">> \o <<Q>>
               \o element.attributes[i].value \o <<Q>>])

\* What lines 239-265 append after the indentation.
StartTagText(element, useSelfClosingElement) ==
    <<"<">> \o element.tagName
    \o attributesText(element)
    \o (IF isEmptyElement(element) /\ useSelfClosingElement
        THEN <<" ", "/", ">">>
        ELSE <<">">>)
    \o (IF elementHasItsValue(element) THEN valueOfElement(element)
        ELSE IF isEmptyElement(element) /\ ~useSelfClosingElement THEN <<>>
        ELSE <<"\n">>)

\* What lines 281-298 append once the children are done.
EndTagText(element, indentText, useSelfClosingElement) ==
    LET endTag == <<"<", "/">> \o element.tagName \o <<">">>
    IN  IF isEmptyElement(element)
        THEN IF useSelfClosingElement THEN <<>> ELSE endTag \o <<"\n">>
        ELSE (IF ~(elementHasNoChildren(element) /\ elementHasValueOrChildren(element))
              THEN indentText ELSE <<>>)
             \o endTag \o <<"\n">>

chElementsOf(element) ==
    IF HasChildrenProperty(element) THEN children(element) ELSE childNodes(element)

\* buildInfo.indentLevel++ before the loop over the children, and
\* buildInfo.indentLevel-- after it.
LevelOnDescend(level) == level + 1
\* The decrement left out.
LevelOnAscendMissing(level) == level
LevelOnAscend(level) == level - 1

Top == stack[Len(stack)]
Pop == SubSeq(stack, 1, Len(stack) - 1)

\* The record of a call that returns, and the caller's frame taking note of it.
Returned(frame, text) ==
    [valid |-> TRUE, element |-> frame.element, level |-> frame.level,
     depth |-> frame.depth, start |-> frame.start, calls |-> frame.calls,
     out |-> SubSeq(text, frame.start + 1, Len(text))]
PopNoting(r) ==
    IF Len(stack) = 1 THEN <<>>
    ELSE [Pop EXCEPT ![Len(stack) - 1].calls =
             Append(@, [element |-> r.element, out |-> r.out])]

\* ------------------------------------------------------------------- actions
Init ==
    /\ \E in \in Inputs :
          /\ xmlText = XmlDeclText(in.decl) \o outerXML(in.root)
          /\ data = in.data
          /\ srcDecl = in.decl
    /\ dom \in Hosts
    /\ doc = [childNodes |-> <<>>]
    /\ xmlHeader = <<>>
    /\ buildInfo = NoBuildInfo
    /\ stack = <<>>
    /\ returned = [valid |-> FALSE]
    /\ resultXml = <<>>
    /\ history = <<>>
    /\ pc = "ready"

\* beautify, lines 138-175: parse, resolve the configuration, build the
\* header, create buildInfo and call _parseInternally on the root.
BeautifyStart ==
    /\ pc = "ready"
    /\ LET parsed == parseFromString(xmlText)
           info == [indentText |-> ResolveIndent(data),
                    xmlText |-> <<>>,
                    useSelfClosingElement |-> ResolveSelfClosing(data),
                    indentLevel |-> 0]
       IN  /\ doc' = parsed
           /\ buildInfo' = info
           /\ stack' = <<Call(parsed.childNodes[1], info, 0)>>
    /\ xmlHeader' = XmlHeaderOf(xmlText)
    /\ pc' = "walk"
    /\ UNCHANGED <<xmlText, data, dom, srcDecl, returned, resultXml, history>>

\* _parseInternally on a node with a tagName, lines 193-267.
EnterElement ==
    /\ pc = "walk" /\ stack # <<>>
    /\ Top.pc = "entry" /\ IsElement(Top.element)
    /\ LET element == Top.element
           indentText == indentTextOf(buildInfo)
       IN  /\ buildInfo' =
                [buildInfo EXCEPT
                    !.xmlText = @ \o indentText
                                \o StartTagText(element, buildInfo.useSelfClosingElement),
                    !.indentLevel = LevelOnDescend(@)]
           /\ stack' = [stack EXCEPT ![Len(stack)] =
                           [@ EXCEPT !.pc = "children", !.indentText = indentText]]
    /\ UNCHANGED <<xmlText, data, dom, srcDecl, doc, xmlHeader, returned, resultXml,
                   history, pc>>

\* _parseInternally on a node without a tagName (a text node, reached through
\* childNodes): lines 193-237, then the call returns.
EnterNonElement ==
    /\ pc = "walk" /\ stack # <<>>
    /\ Top.pc = "entry" /\ ~IsElement(Top.element)
    /\ LET info == [buildInfo EXCEPT !.xmlText = @ \o indentTextOf(buildInfo)]
           r == Returned(Top, info.xmlText)
       IN  /\ buildInfo' = info
           /\ returned' = r
           /\ stack' = PopNoting(r)
    /\ UNCHANGED <<xmlText, data, dom, srcDecl, doc, xmlHeader, resultXml, history, pc>>

\* One turn of the loop of lines 273-277: the call on the next child.
CallChild ==
    /\ pc = "walk" /\ stack # <<>>
    /\ Top.pc = "children"
    /\ Top.i < Len(chElementsOf(Top.element))
    /\ stack' = Append([stack EXCEPT ![Len(stack)].i = @ + 1],
                       Call(chElementsOf(Top.element)[Top.i + 1], buildInfo, Len(stack)))
    /\ UNCHANGED <<xmlText, data, dom, srcDecl, doc, xmlHeader, buildInfo, returned,
                   resultXml, history, pc>>

\* Lines 279-298 once the loop is over: the end tag, and the call returns.
LeaveElement ==
    /\ pc = "walk" /\ stack # <<>>
    /\ Top.pc = "children"
    /\ Top.i >= Len(chElementsOf(Top.element))
    /\ LET info == [buildInfo EXCEPT
                      !.indentLevel = LevelOnAscend(@),
                      !.xmlText = @ \o EndTagText(Top.element, Top.indentText,
                                                  buildInfo.useSelfClosingElement)]
           r == Returned(Top, info.xmlText)
       IN  /\ buildInfo' = info
           /\ returned' = r
           /\ stack' = PopNoting(r)
    /\ UNCHANGED <<xmlText, data, dom, srcDecl, doc, xmlHeader, resultXml, history, pc>>

\* beautify, lines 178-185: the header line, if any, then the rendered tree.
BeautifyFinish ==
    /\ pc = "walk" /\ stack = <<>>
    /\ resultXml' = (IF Len(xmlHeader) > 0 THEN xmlHeader \o <<"\n">> ELSE <<>>)
                    \o buildInfo.xmlText
    /\ pc' = "done"
    /\ UNCHANGED <<xmlText, data, dom, srcDecl, doc, xmlHeader, buildInfo, stack,
                   returned, history>>

Next ==
    \/ BeautifyStart
    \/ EnterElement
    \/ EnterNonElement
    \/ CallChild
    \/ LeaveElement
    \/ BeautifyFinish

Spec == Init /\ [][Next]_vars

\* beautify called again on the text it returned.
Rebeautify ==
    /\ pc = "done"
    /\ Len(history) + 1 < MaxRuns
    /\ history' = Append(history, [xmlText |-> xmlText, doc |-> doc, resultXml |-> resultXml])
    /\ xmlText' = resultXml
    /\ doc' = [childNodes |-> <<>>]
    /\ xmlHeader' = <<>>
    /\ buildInfo' = NoBuildInfo
    /\ stack' = <<>>
    /\ returned' = [valid |-> FALSE]
    /\ resultXml' = <<>>
    /\ pc' = "ready"
    /\ UNCHANGED <<data, dom, srcDecl>>

NextTwice == Next \/ Rebeautify

SpecTwice == Init /\ [][NextTwice]_vars

\* ------------------------------------------------------------------- claims
\* The vocabulary of the claims, stated on the tree and on the configuration.
HasChildElements(n) == \E k \in 1..Len(n.childNodes) : IsElement(n.childNodes[k])
IsBlank(text) == \A k \in 1..Len(text) : text[k] \in WhiteSpace
SelfClosingConfigured == data.given /\ data.useSelfClosingElement = "true"
Indentation(d) == Repeat(buildInfo.indentText, d)
EndsWith(s, suffix) ==
    Len(suffix) <= Len(s) /\ SubSeq(s, Len(s) - Len(suffix) + 1, Len(s)) = suffix

RECURSIVE AttributesAsClaimed(_)
AttributesAsClaimed(attrs) ==
    IF attrs = <<>> THEN <<>>
    ELSE <<" ">> \o Head(attrs).name \o <<"=", Q>> \o Head(attrs).value \o <<Q>>
         \o AttributesAsClaimed(Tail(attrs))

OpenTag(e) == <<"<">> \o e.tagName \o AttributesAsClaimed(e.attributes)
CloseTag(e) == <<"<", "/">> \o e.tagName \o <<">">>

\* C1: an element with no child elements and blank text is rendered, at its
\* depth d, as d indentation units, '<tag', its attributes and ' />' and a
\* newline in self-closing mode, and with '></tag>' and a newline otherwise.
C1_EmptyElement ==
    (/\ returned.valid
     /\ IsElement(returned.element)
     /\ ~HasChildElements(returned.element)
     /\ IsBlank(textContent(returned.element)))
    => returned.out =
         Indentation(returned.depth) \o OpenTag(returned.element)
         \o (IF SelfClosingConfigured THEN <<" ", "/", ">">>
             ELSE <<">">> \o CloseTag(returned.element))
         \o <<"\n">>

\* C1 where the host gives elements a children property.
C1_EmptyElementWithChildrenProperty == dom.children => C1_EmptyElement

HasCData(n) ==
    \E k \in 1..Len(n.childNodes) : n.childNodes[k].nodeType = CDATA_SECTION_NODE

\* C2: an element with no child elements and non-blank text is rendered, at its
\* depth d, as d indentation units, the start tag, the text unchanged, the end
\* tag and a newline, with nothing in between.  Stated for text written as
\* plain character data: a CDATA section is written back inside its markers.
C2_LeafWithText ==
    (/\ returned.valid
     /\ IsElement(returned.element)
     /\ ~HasChildElements(returned.element)
     /\ ~HasCData(returned.element)
     /\ ~IsBlank(textContent(returned.element)))
    => returned.out =
         Indentation(returned.depth) \o OpenTag(returned.element) \o <<">">>
         \o textContent(returned.element)
         \o CloseTag(returned.element) \o <<"\n">>

\* C3: the start tag of an element at depth d begins a line and has exactly d
\* indentation units before it; the end tag of an element with child elements
\* stands on a line of its own after exactly d indentation units.
C3_Indentation ==
    (returned.valid /\ IsElement(returned.element))
    => /\ returned.start = 0 \/ buildInfo.xmlText[returned.start] = "\n"
       /\ StartsAt(returned.out,
                   Indentation(returned.depth) \o <<"<">> \o returned.element.tagName, 1)
       /\ HasChildElements(returned.element)
          => EndsWith(returned.out,
                      <<"\n">> \o Indentation(returned.depth)
                      \o CloseTag(returned.element) \o <<"\n">>)

\* C3 where the host gives elements a children property.
C3_IndentationWithChildrenProperty == dom.children => C3_Indentation

\* C4: for an input with a declaration that states a version and an encoding
\* E, the result is '<?xml version="1.0" encoding="E"?>', a newline and the
\* rendered tree; for an input without '<?xml' it is the rendered tree alone.
C4_Declaration ==
    (pc = "done" /\ history = <<>>)
    => /\ (srcDecl.present /\ srcDecl.encoding # <<>>)
          => resultXml = <<"<", "?", "x", "m", "l", " ", "v", "e", "r", "s", "i", "o", "n", "=", Q, "1", ".", "0", Q, " ", "e", "n", "c", "o", "d", "i", "n", "g", "=", Q>> \o srcDecl.encoding
                         \o <<Q, "?", ">">> \o <<"\n">> \o buildInfo.xmlText
       /\ indexOf(xmlText, XmlDeclOpen) < 0 => resultXml = buildInfo.xmlText

RECURSIVE NoWhiteSpaceInText(_)
NoWhiteSpaceInText(n) ==
    IF IsElement(n)
    THEN \A k \in 1..Len(n.childNodes) : NoWhiteSpaceInText(n.childNodes[k])
    ELSE \A k \in 1..Len(n.data) : n.data[k] \notin WhiteSpace

\* C5: beautify applied to its own result, for a document whose text holds no
\* white space, under the same configuration, returns the same text.
C5_Idempotent ==
    (/\ pc = "done"
     /\ history # <<>>
     /\ NoWhiteSpaceInText(history[1].doc.childNodes[1]))
    => resultXml = history[Len(history)].resultXml

\* Two trees with the same tags, attributes, order of child elements and, white
\* space aside, text content of every element.
RECURSIVE Equivalent(_, _)
Equivalent(m, n) ==
    /\ m.tagName = n.tagName
    /\ m.attributes = n.attributes
    /\ blankReplaced(textContent(m)) = blankReplaced(textContent(n))
    /\ Len(children(m)) = Len(children(n))
    /\ \A k \in 1..Len(children(m)) : Equivalent(children(m)[k], children(n)[k])

\* C6: the document parsed from the result of beautify is structurally
\* equivalent to the document parsed from its input.
C6_RoundTrip ==
    (pc = "done" /\ history = <<>>)
    => Equivalent(parseFromString(resultXml).childNodes[1], doc.childNodes[1])

\* C7: the start tag of an element holds, between the tag name and its closing
\* '>' or ' />', the element's attributes in document order, each once, each
\* as a space, the name, '="', the value and '"'.
C7_Attributes ==
    (returned.valid /\ IsElement(returned.element))
    => LET indentLen == Len(Indentation(returned.level))
           tag == SubSeq(returned.out, indentLen + 1, Len(returned.out))
       IN  \/ StartsAt(tag, OpenTag(returned.element) \o <<">">>, 1)
           \/ StartsAt(tag, OpenTag(returned.element) \o <<" ", "/", ">">>, 1)

C7_Witness ==
    /\ returned.valid
    /\ IsElement(returned.element)
    /\ Len(returned.element.attributes) = 2
    /\ returned.depth > 0

\* C8: the indentation unit is config.indent whenever that is specified, and
\* two spaces otherwise; self-closing mode is on exactly when
\* config.useSelfClosingElement is true.
C8_Configuration ==
    (pc \in {"walk", "done"})
    => /\ buildInfo.indentText =
            (IF data.given /\ data.indent.set THEN data.indent.v ELSE <<" ", " ">>)
       /\ buildInfo.useSelfClosingElement = SelfClosingConfigured

\* C9: indentLevel is never negative; it equals the depth of a node while the
\* node is rendered; it goes up by one only as an element's children are about
\* to be visited and down by one only right after them; a call that returns
\* leaves it as the call found it; it is 0 when beautify returns.
C9_IndentLevel ==
    /\ [](/\ buildInfo.indentLevel >= 0
          /\ (stack # <<>> /\ Top.pc = "entry") => buildInfo.indentLevel = Top.depth
          /\ pc = "done" => buildInfo.indentLevel = 0)
    /\ [][/\ buildInfo'.indentLevel \in
               {buildInfo.indentLevel - 1, buildInfo.indentLevel, buildInfo.indentLevel + 1}
          /\ buildInfo'.indentLevel = buildInfo.indentLevel + 1
             => /\ stack # <<>> /\ Top.pc = "entry" /\ IsElement(Top.element)
                /\ Len(stack') = Len(stack)
                /\ stack'[Len(stack)].pc = "children" /\ stack'[Len(stack)].i = 0
          /\ buildInfo'.indentLevel = buildInfo.indentLevel - 1
             => /\ stack # <<>> /\ Top.pc = "children"
                /\ Top.i = Len(chElementsOf(Top.element))
                /\ Len(stack') = Len(stack) - 1
          /\ (stack # <<>> /\ Len(stack') < Len(stack))
             => buildInfo'.indentLevel = Top.level]_vars

C9_Witness ==
    /\ returned.valid
    /\ IsElement(returned.element)
    /\ returned.depth = 2
    /\ buildInfo.indentLevel = 2
    /\ Len(stack) = 2

\* C10: for an element with child elements, every child node is rendered, in
\* document order, between its start tag and its end tag; a text node
\* contributes its character data and nothing else.
C10_Children ==
    (/\ returned.valid
     /\ IsElement(returned.element)
     /\ HasChildElements(returned.element))
    => /\ [k \in 1..Len(returned.calls) |-> returned.calls[k].element]
             = returned.element.childNodes
       /\ \A k \in 1..Len(returned.calls) :
             ~IsElement(returned.calls[k].element)
             => returned.calls[k].out = returned.calls[k].element.data
       /\ returned.out =
            Indentation(returned.depth) \o OpenTag(returned.element) \o <<">", "\n">>
            \o Flatten([k \in 1..Len(returned.calls) |-> returned.calls[k].out])
            \o Indentation(returned.depth) \o CloseTag(returned.element) \o <<"\n">>

====
